---- MODULE Spec2Model ----
(***************************************************************************)
(* Model of the ingestion loop of main (src/src/main.rs) and of the vector *)
(* store QdrantVectorStore (src/src/qdrant_client.rs).                     *)
(*                                                                         *)
(* Text is a sequence of tokens: words "x", "y", "z" and the whitespace    *)
(* token " ".  A path is a sequence of components.  An md5 digest is a     *)
(* record wrapping the digested value (a collision-free digest).           *)
(***************************************************************************)
EXTENDS Integers, Sequences, FiniteSets, TLC

\* ------------------------------------------------------------------ bounds
MaxEntries == 3       \* files ingested over all the invocations of the program
MaxChunkWords == 1    \* words per chunk (stand-in for chunk_size = 1000 chars)
MaxExtra == 1         \* how far an embedding batch may be longer than its input

\* ------------------------------------------------------- input universes
Paths == { <<"data", "a.pdf">>, <<"data", "b.docx">> }

\* Texts the document converter can return (0, 1 and 3 words).
Texts ==
  { << " " >>,
    << " ", "x", " " >>,
    << "y", " ", " ", "x", "z" >> }

\* (size, mtime) pairs fs::metadata can report.
FileStats == { [size |-> 1, mtime |-> 1], [size |-> 2, mtime |-> 2] }

NoFile == <<>>
NoBatch == [ok |-> FALSE, v |-> <<>>]

\* ------------------------------------------------------------- sequences
RECURSIVE SeqFilter(_, _)
SeqFilter(s, keep) ==
  IF s = <<>> THEN <<>>
  ELSE IF Head(s) \in keep THEN <<Head(s)>> \o SeqFilter(Tail(s), keep)
       ELSE SeqFilter(Tail(s), keep)

Take(s, n) == IF Len(s) <= n THEN s ELSE SubSeq(s, 1, n)

Min(a, b) == IF a <= b THEN a ELSE b

\* All the sequences without repetition over the set S.
RECURSIVE Orderings(_)
Orderings(S) ==
  IF S = {} THEN { <<>> }
  ELSE UNION { { <<x>> \o t : t \in Orderings(S \ {x}) } : x \in S }

FileLists == UNION { Orderings(S) : S \in SUBSET Paths }

\* ------------------------------------------------------- pure functions
\* md5::compute followed by format!("{:x}")
Md5Hex(x) == [md5 |-> x]

\* Path::file_name
file_name_of(path) == path[Len(path)]

\* clean_whitespace: the words of the text, in order (joined by one space)
clean_whitespace(text) == SeqFilter(text, {"x", "y", "z"})

\* MarkdownSplitter::chunks over a cleaned text: groups of at most n words
RECURSIVE SplitWords(_, _)
SplitWords(words, n) ==
  IF words = <<>> THEN <<>>
  ELSE <<Take(words, n)>> \o
       SplitWords(SubSeq(words, Min(n, Len(words)) + 1, Len(words)), n)

chunk_markdown_content(content, chunk_size) ==
  SplitWords(clean_whitespace(content), chunk_size)

\* format!("passage: {}", chunk)
PassageDoc(chunk) == <<"passage: ">> \o chunk

Count(s, w) == Cardinality({ j \in 1..Len(s) : s[j] = w })

\* The dense model: a fixed-dimension vector, here the word counts.
DenseVec(doc) == << Count(doc, "x"), Count(doc, "y"), Count(doc, "z") >>

WordIndex(w) == CASE w = "x" -> 1 [] w = "y" -> 2 [] w = "z" -> 3 [] OTHER -> 0

\* The sparse model: index/weight pairs of the words that occur, weights
\* counted double at the head of the text.
SparseVec(doc) ==
  LET idx == SeqFilter(<<"x", "y", "z">>, { doc[j] : j \in 1..Len(doc) })
  IN [ indices |-> [ j \in 1..Len(idx) |-> WordIndex(idx[j]) ],
       values  |-> [ j \in 1..Len(idx) |->
                      Count(doc, idx[j])
                      + (IF Len(doc) > 1 /\ doc[2] = idx[j] THEN 1 ELSE 0) ] ]

\* A batch of length len returned by a model for the documents docs: the
\* embeddings of the documents in input order, cut or padded to len.
DenseBatch(docs, len) ==
  [ j \in 1..len |-> IF j <= Len(docs) THEN DenseVec(docs[j]) ELSE DenseVec(<<>>) ]

SparseBatch(docs, len) ==
  [ j \in 1..len |-> IF j <= Len(docs) THEN SparseVec(docs[j]) ELSE SparseVec(<<>>) ]

\* The lengths a model may return for a batch of n documents.
BatchLens(n) == { l \in (n - MaxExtra)..(n + MaxExtra) : l >= 0 }

VARIABLES
  pc,                \* position of main
  budget,            \* files that may still be ingested (bounds the model)
  files,             \* files_to_process
  idx,               \* 1-based position of entry in files_to_process
  markdown_content,  \* result of convert_file_to_markdown for the entry
  file_id,           \* id returned by store_file_metadata for the entry
  chunks,            \* chunk_markdown_content(&markdown_content, 1000)
  dense_embeddings,  \* result of generate_dense_embeddings
  sparse_embeddings, \* result of generate_sparse_embeddings
  i,                 \* index of the chunk store loop (0-based)
  filesColl,         \* collection "files": point id -> point
  chunkColl,         \* collection "file_embeddings": point id -> point
  denseDocs,         \* documents handed to the dense model for the entry
  sparseDocs,        \* documents handed to the sparse model for the entry
  outcome,           \* how the attempt of the previous entry ended
  base,              \* history: chunk points present when the entry was started
  failed,            \* history: positions of the entry whose chunk write failed
  lastMeta,          \* history: path -> payload of its last successful write
  written,           \* history: path -> chunk writes the backend accepted
  steps,             \* history: the calls made for the entry, in their order
  query,                   \* perform_search: the --search argument
  sparse_query_embeddings, \* hybrid_search: result of sparse_model.embed
  dense_query_embeddings,  \* hybrid_search: result of dense_model.embed
  prefetch_sparse,         \* backend: ids taken by the sparse prefetch
  prefetch_dense,          \* backend: ids taken by the dense prefetch
  vector_results,          \* hybrid_search: the points of the fused response
  documents,               \* hybrid_search: the texts handed to the reranker
  reranked_results,        \* hybrid_search: result of reranker.rerank
  results,                 \* perform_search: the Result of hybrid_search
  search_error,            \* perform_search: the call whose Err was returned
  rerank_calls,            \* history: calls of reranker.rerank
  llm_calls,               \* history: calls of generate_response
  llm_context,             \* generate_response: the sources it renders
  chat_response,           \* generate_response: choices of the response
  response,                \* perform_search: the Result of generate_response
  exists,                  \* backend: which of the two collections exist
  init_log,                \* init_collections: the results it printed
  init_result,             \* QdrantVectorStore::new: result of init_collections
  inits                    \* starts of the program (bounds the model)

vars == << pc, budget, files, idx, markdown_content, file_id, chunks,
           dense_embeddings, sparse_embeddings, i, filesColl, chunkColl,
           denseDocs, sparseDocs, outcome, base, failed, lastMeta,
           written, steps,
           query, sparse_query_embeddings, dense_query_embeddings,
           prefetch_sparse, prefetch_dense, vector_results, documents,
           reranked_results, results, search_error, rerank_calls,
           llm_calls, llm_context, chat_response, response,
           exists, init_log, init_result, inits >>

ingestVars == << budget, files, idx, markdown_content, file_id, chunks,
                 dense_embeddings, sparse_embeddings, i, denseDocs,
                 sparseDocs, outcome, base, failed, lastMeta, written,
                 steps >>

searchVars == << query, sparse_query_embeddings, dense_query_embeddings,
                 prefetch_sparse, prefetch_dense, vector_results, documents,
                 reranked_results, results, search_error, rerank_calls,
                 llm_calls, llm_context, chat_response, response >>

\* the variables of hybrid_search
searchCallVars == << query, sparse_query_embeddings, dense_query_embeddings,
                     prefetch_sparse, prefetch_dense, vector_results,
                     documents, reranked_results, results, search_error,
                     rerank_calls >>

\* the variables of the call of the language model
llmVars == << llm_calls, llm_context, chat_response, response >>

storeVars == << filesColl, chunkColl >>

\* the variables of QdrantVectorStore::new
initVars == << exists, init_log, init_result, inits >>

\* the store was initialized and both collections exist
InitStoreReady ==
  /\ exists = [ files |-> TRUE, chunks |-> TRUE ]
  /\ init_log = <<>>
  /\ init_result = "ok"
  /\ inits = 1
entryVars == << markdown_content, file_id, chunks, dense_embeddings,
                sparse_embeddings, i, denseDocs, sparseDocs, steps >>

NoResult == [ok |-> FALSE, v |-> <<>>]

\* no query has been made
InitSearchVars ==
  /\ query = <<>>
  /\ sparse_query_embeddings = NoBatch
  /\ dense_query_embeddings = NoBatch
  /\ prefetch_sparse = <<>>
  /\ prefetch_dense = <<>>
  /\ vector_results = <<>>
  /\ documents = <<>>
  /\ reranked_results = <<>>
  /\ results = NoResult
  /\ search_error = "none"
  /\ rerank_calls = 0
  /\ llm_calls = 0
  /\ llm_context = <<>>
  /\ chat_response = <<>>
  /\ response = [ok |-> FALSE, v |-> <<>>, err |-> "none"]

Init ==
  /\ InitSearchVars
  /\ pc = "start"
  /\ budget = MaxEntries
  /\ files = <<>>
  /\ idx = 0
  /\ markdown_content = <<>>
  /\ file_id = NoFile
  /\ chunks = <<>>
  /\ dense_embeddings = NoBatch
  /\ sparse_embeddings = NoBatch
  /\ i = 0
  /\ filesColl = << >>
  /\ chunkColl = << >>
  /\ denseDocs = <<>>
  /\ sparseDocs = <<>>
  /\ outcome = "none"
  /\ base = 0
  /\ failed = {}
  /\ lastMeta = << >>
  /\ written = [ path \in Paths |-> 0 ]
  /\ steps = <<>>
  /\ InitStoreReady

\* ------------------------------------------------------- the vector store
\* upsert_points with one point: writes or overwrites the point of that id
Upsert(coll, point) == (point.id :> point) @@ coll

\* MetadataPoint with the id taken from the content instead of the path
MetadataPoint_KeyedByContent(file_path, fname, file_size, modified_time, content_hash, md) ==
  [ id      |-> Md5Hex(md),
    vector  |-> <<0>>,
    payload |-> [ file_path        |-> file_path,
                  file_name        |-> fname,
                  file_size        |-> file_size,
                  modified_time    |-> modified_time,
                  content_hash     |-> content_hash,
                  markdown_content |-> md ] ]

\* store_file_metadata: the PointStruct built for a file
MetadataPoint(file_path, fname, file_size, modified_time, content_hash, md) ==
  [ id      |-> Md5Hex(file_path),
    vector  |-> <<0>>,
    payload |-> [ file_path        |-> file_path,
                  file_name        |-> fname,
                  file_size        |-> file_size,
                  modified_time    |-> modified_time,
                  content_hash     |-> content_hash,
                  markdown_content |-> md ] ]

\* NewUuid that gives every chunk point the same id
NewUuid_Reused(coll) == 1

\* Uuid::new_v4: an id that no point of the collection has
NewUuid(coll) == Cardinality(DOMAIN coll) + 1

\* Vector::new_sparse(indices mapped to u32, values); the indices of the
\* model are word indices, which `as u32` leaves as they are
NewSparse(sparse_embedding) ==
  [ indices |-> [ j \in 1..Len(sparse_embedding.indices) |->
                    sparse_embedding.indices[j] ],
    values  |-> sparse_embedding.values ]

DENSE_NAME == "text-dense"
SPARSE_NAME == "text-sparse"

\* ChunkPoint with 1-based positions
ChunkPoint_OneBased(uuid, fid, chunk, chunk_index, dense_embedding, sparse_embedding) ==
  [ id      |-> uuid,
    vectors |-> [ n \in {DENSE_NAME, SPARSE_NAME} |->
                    IF n = DENSE_NAME THEN dense_embedding
                    ELSE NewSparse(sparse_embedding) ],
    payload |-> [ file_id       |-> fid,
                  chunk_index   |-> chunk_index + 1,
                  chunk_content |-> chunk ] ]

\* ChunkPoint that carries the dense vector only
ChunkPoint_DenseOnly(uuid, fid, chunk, chunk_index, dense_embedding, sparse_embedding) ==
  [ id      |-> uuid,
    vectors |-> [ n \in {DENSE_NAME} |-> dense_embedding ],
    payload |-> [ file_id       |-> fid,
                  chunk_index   |-> chunk_index,
                  chunk_content |-> chunk ] ]

\* store_embeddings: the PointStruct built for a chunk
ChunkPoint(uuid, fid, chunk, chunk_index, dense_embedding, sparse_embedding) ==
  [ id      |-> uuid,
    vectors |-> [ n \in {DENSE_NAME, SPARSE_NAME} |->
                    IF n = DENSE_NAME THEN dense_embedding
                    ELSE NewSparse(sparse_embedding) ],
    payload |-> [ file_id       |-> fid,
                  chunk_index   |-> chunk_index,
                  chunk_content |-> chunk ] ]

\* store_file_metadata that returns the id although the upsert failed
store_file_metadata_ignoring(coll, file_path, fname, file_size, modified_time, content_hash, md, ok) ==
  LET point == MetadataPoint(file_path, fname, file_size, modified_time,
                             content_hash, md)
  IN [ coll   |-> IF ok THEN Upsert(coll, point) ELSE coll,
       result |-> [ok |-> TRUE, v |-> point.id] ]

\* store_file_metadata: the files collection afterwards and the Result
\* returned; ok is whether the backend accepts the upsert (`.await?`).
store_file_metadata(coll, file_path, fname, file_size, modified_time, content_hash, md, ok) ==
  LET point == MetadataPoint(file_path, fname, file_size, modified_time,
                             content_hash, md)
  IN [ coll   |-> IF ok THEN Upsert(coll, point) ELSE coll,
       result |-> IF ok THEN [ok |-> TRUE, v |-> point.id]
                  ELSE [ok |-> FALSE, v |-> NoFile] ]

\* store_embeddings that returns the Err of the upsert to its caller
store_embeddings_propagating(coll, fid, chunk, chunk_index, dense_embedding, sparse_embedding, ok) ==
  LET point == ChunkPoint(NewUuid(coll), fid, chunk, chunk_index,
                          dense_embedding, sparse_embedding)
  IN [ coll   |-> IF ok THEN Upsert(coll, point) ELSE coll,
       result |-> [ok |-> ok] ]

\* store_embeddings: the chunk collection afterwards and the Result returned;
\* an Err of the upsert is printed and Ok(()) is returned.
store_embeddings(coll, fid, chunk, chunk_index, dense_embedding, sparse_embedding, ok) ==
  LET point == ChunkPoint(NewUuid(coll), fid, chunk, chunk_index,
                          dense_embedding, sparse_embedding)
  IN [ coll   |-> IF ok THEN Upsert(coll, point) ELSE coll,
       result |-> [ok |-> TRUE] ]

\* --------------------------------------------------------------- actions
\* the call op made for the entry, with the chunk position n it is for
\* (-1 when it is for the whole file)
Step(op, n) == [ op |-> op, file |-> files[idx], pos |-> n ]

ResetEntry ==
  /\ steps' = <<>>
  /\ base' = Cardinality(DOMAIN chunkColl)
  /\ failed' = {}
  /\ markdown_content' = <<>>
  /\ file_id' = NoFile
  /\ chunks' = <<>>
  /\ dense_embeddings' = NoBatch
  /\ sparse_embeddings' = NoBatch
  /\ i' = 0
  /\ denseDocs' = <<>>
  /\ sparseDocs' = <<>>

\* `continue` / end of the body of `for entry in files_to_process`
NextEntry(how) ==
  /\ outcome' = how
  /\ idx' = idx + 1
  /\ pc' = IF idx < Len(files) THEN "convert" ELSE "complete"
  /\ ResetEntry

\* a panic (unwrap on Err, index out of bounds) ends the process
Panic(how) ==
  /\ outcome' = how
  /\ pc' = "panicked"

\* main, up to the start of the loop: one invocation of the program
StartRun ==
  /\ pc \in {"start", "done", "panicked"}
  /\ \E fl \in FileLists :
       /\ Len(fl) <= budget
       /\ budget' = budget - Len(fl)
       /\ files' = fl
       /\ idx' = IF fl = <<>> THEN 0 ELSE 1
       /\ pc' = IF fl = <<>> THEN "done" ELSE "convert"
  /\ outcome' = "none"
  /\ ResetEntry
  /\ UNCHANGED << storeVars, lastMeta, written >>
  /\ UNCHANGED << searchVars, initVars >>

\* convert_file_to_markdown and the skip on Err
Convert ==
  /\ pc = "convert"
  /\ \/ NextEntry("convert_failed")
     \/ /\ \E text \in Texts : markdown_content' = text
        /\ steps' = Append(steps, Step("convert_file_to_markdown", -1))
        /\ pc' = "store_meta"
        /\ UNCHANGED << idx, outcome, file_id, chunks, dense_embeddings,
                        sparse_embeddings, i, denseDocs, sparseDocs, base,
                        failed >>
  /\ UNCHANGED << budget, files, storeVars, lastMeta, written >>
  /\ UNCHANGED << searchVars, initVars >>

\* store_file_metadata and the match on its result
StoreFileMetadata ==
  /\ pc = "store_meta"
  /\ \E st \in FileStats, ok \in BOOLEAN :
       LET path == files[idx]
           r == store_file_metadata(filesColl, path, file_name_of(path),
                                    st.size, st.mtime,
                                    Md5Hex(markdown_content),
                                    markdown_content, ok)
       IN /\ filesColl' = r.coll
          /\ IF r.result.ok
             THEN /\ file_id' = r.result.v
                  /\ steps' = Append(steps, Step("store_file_metadata", -1))
                  /\ pc' = "chunk"
                  /\ lastMeta' =
                       (path :> [ file_size |-> st.size,
                                  modified_time |-> st.mtime,
                                  markdown_content |-> markdown_content ])
                       @@ lastMeta
                  /\ UNCHANGED << idx, outcome, markdown_content, chunks,
                                  dense_embeddings, sparse_embeddings, i,
                                  denseDocs, sparseDocs, base, failed >>
             ELSE /\ NextEntry("metadata_failed")
                  /\ UNCHANGED lastMeta
  /\ UNCHANGED << budget, files, chunkColl, written >>
  /\ UNCHANGED << searchVars, initVars >>

\* chunk_markdown_content(&markdown_content, 1000)
Chunk ==
  /\ pc = "chunk"
  /\ chunks' = chunk_markdown_content(markdown_content, MaxChunkWords)
  /\ steps' = Append(steps, Step("chunk_markdown_content", -1))
  /\ pc' = "dense"
  /\ UNCHANGED << budget, files, idx, markdown_content, file_id,
                  dense_embeddings, sparse_embeddings, i, storeVars,
                  denseDocs, sparseDocs, outcome, base, failed, lastMeta,
                  written >>
  /\ UNCHANGED << searchVars, initVars >>

\* generate_dense_embeddings(&chunks, ..).unwrap()
DenseEmbed ==
  /\ pc = "dense"
  /\ LET passages == [ j \in 1..Len(chunks) |-> PassageDoc(chunks[j]) ]
     IN /\ denseDocs' = passages
        /\ steps' = Append(steps, Step("generate_dense_embeddings", -1))
        /\ \/ /\ Panic("dense_failed")
              /\ UNCHANGED dense_embeddings
           \/ /\ \E len \in BatchLens(Len(passages)) :
                   dense_embeddings' =
                     [ok |-> TRUE, v |-> DenseBatch(passages, len)]
              /\ pc' = "sparse"
              /\ UNCHANGED outcome
  /\ UNCHANGED << budget, files, idx, markdown_content, file_id, chunks,
                  sparse_embeddings, i, storeVars, sparseDocs, base, failed,
                  lastMeta, written >>
  /\ UNCHANGED << searchVars, initVars >>

\* generate_sparse_embeddings(&chunks, ..).unwrap()
SparseEmbed ==
  /\ pc = "sparse"
  /\ LET passages == [ j \in 1..Len(chunks) |-> PassageDoc(chunks[j]) ]
     IN /\ sparseDocs' = passages
        /\ steps' = Append(steps, Step("generate_sparse_embeddings", -1))
        /\ \/ /\ Panic("sparse_failed")
              /\ UNCHANGED sparse_embeddings
           \/ /\ \E len \in BatchLens(Len(passages)) :
                   sparse_embeddings' =
                     [ok |-> TRUE, v |-> SparseBatch(passages, len)]
              /\ pc' = "check"
              /\ UNCHANGED outcome
  /\ UNCHANGED << budget, files, idx, markdown_content, file_id, chunks,
                  dense_embeddings, i, storeVars, denseDocs, base, failed,
                  lastMeta, written >>
  /\ UNCHANGED << searchVars, initVars >>

\* CheckLengths that compares the dense batch with the chunks instead
CheckLengths_AgainstChunks ==
  /\ pc = "check"
  /\ IF Len(dense_embeddings.v) # Len(chunks)
     THEN NextEntry("length_mismatch")
     ELSE /\ pc' = "store"
          /\ UNCHANGED << idx, outcome, entryVars, base, failed >>
  /\ UNCHANGED << budget, files, storeVars, lastMeta, written >>
  /\ UNCHANGED << searchVars, initVars >>

\* if dense_embeddings.len() != sparse_embeddings.len() { ..; continue; }
CheckLengths ==
  /\ pc = "check"
  /\ IF Len(dense_embeddings.v) # Len(sparse_embeddings.v)
     THEN NextEntry("length_mismatch")
     ELSE /\ pc' = "store"
          /\ UNCHANGED << idx, outcome, entryVars, base, failed >>
  /\ UNCHANGED << budget, files, storeVars, lastMeta, written >>
  /\ UNCHANGED << searchVars, initVars >>

\* StoreArgs that takes the sparse embedding from the other end of the batch
StoreArgs_Mispaired(n) ==
  [ chunk            |-> chunks[n + 1],
    dense_embedding  |-> dense_embeddings.v[n + 1],
    sparse_embedding |-> sparse_embeddings.v[Len(sparse_embeddings.v) - n] ]

\* the arguments of the store_embeddings call of iteration n (0-based)
StoreArgs(n) ==
  [ chunk            |-> chunks[n + 1],
    dense_embedding  |-> dense_embeddings.v[n + 1],
    sparse_embedding |-> sparse_embeddings.v[n + 1] ]

\* StoreChunk that writes a chunk again when its write was not accepted
StoreChunk_Retrying ==
  /\ pc = "store"
  /\ i < Len(dense_embeddings.v)
  /\ IF i >= Len(chunks)
     THEN \* &chunks[i] is out of bounds
          /\ Panic("index_out_of_bounds")
          /\ UNCHANGED << i, storeVars, failed, written, steps >>
     ELSE \E ok \in BOOLEAN :
            LET a == StoreArgs(i)
                r == store_embeddings(chunkColl, file_id, a.chunk, i,
                                      a.dense_embedding, a.sparse_embedding, ok)
            IN /\ chunkColl' = r.coll
               /\ steps' = Append(steps, Step("store_embeddings", i))
               /\ failed' = IF ok THEN failed ELSE failed \cup {i}
               /\ written' = IF ok
                             THEN [ written EXCEPT ![files[idx]] = @ + 1 ]
                             ELSE written
               /\ UNCHANGED filesColl
               /\ IF r.result.ok
                  THEN /\ i' = IF ok THEN i + 1 ELSE i
                       /\ UNCHANGED << pc, outcome >>
                  ELSE \* .await.unwrap()
                       /\ Panic("store_failed")
                       /\ UNCHANGED i
  /\ UNCHANGED << base, lastMeta >>
  /\ UNCHANGED << budget, files, idx, markdown_content, file_id, chunks,
                  dense_embeddings, sparse_embeddings, denseDocs, sparseDocs >>
  /\ UNCHANGED << searchVars, initVars >>

\* one iteration of `for (i, dense_embedding) in dense_embeddings.iter()`
StoreChunk ==
  /\ pc = "store"
  /\ i < Len(dense_embeddings.v)
  /\ IF i >= Len(chunks)
     THEN \* &chunks[i] is out of bounds
          /\ Panic("index_out_of_bounds")
          /\ UNCHANGED << i, storeVars, failed, written, steps >>
     ELSE \E ok \in BOOLEAN :
            LET a == StoreArgs(i)
                r == store_embeddings(chunkColl, file_id, a.chunk, i,
                                      a.dense_embedding, a.sparse_embedding, ok)
            IN /\ chunkColl' = r.coll
               /\ steps' = Append(steps, Step("store_embeddings", i))
               /\ failed' = IF ok THEN failed ELSE failed \cup {i}
               /\ written' = IF ok
                             THEN [ written EXCEPT ![files[idx]] = @ + 1 ]
                             ELSE written
               /\ UNCHANGED filesColl
               /\ IF r.result.ok
                  THEN /\ i' = i + 1
                       /\ UNCHANGED << pc, outcome >>
                  ELSE \* .await.unwrap()
                       /\ Panic("store_failed")
                       /\ UNCHANGED i
  /\ UNCHANGED << base, lastMeta >>
  /\ UNCHANGED << budget, files, idx, markdown_content, file_id, chunks,
                  dense_embeddings, sparse_embeddings, denseDocs, sparseDocs >>
  /\ UNCHANGED << searchVars, initVars >>

\* the loop over the embeddings is exhausted: file_progress.inc(1)
FinishEntry ==
  /\ pc = "store"
  /\ i = Len(dense_embeddings.v)
  /\ NextEntry("stored")
  /\ UNCHANGED << budget, files, storeVars, lastMeta, written >>
  /\ UNCHANGED << searchVars, initVars >>

\* ui.print_completion("All files processed successfully!")
Complete ==
  /\ pc = "complete"
  /\ pc' = "done"
  /\ UNCHANGED << budget, files, idx, entryVars, storeVars, outcome, base,
                  failed, lastMeta, written >>
  /\ UNCHANGED << searchVars, initVars >>

Next ==
  \/ StartRun
  \/ Convert
  \/ StoreFileMetadata
  \/ Chunk
  \/ DenseEmbed
  \/ SparseEmbed
  \/ CheckLengths
  \/ StoreChunk
  \/ FinishEntry
  \/ Complete

Spec == Init /\ [][Next]_vars

\* ================================================================ search
MaxPoints == 52       \* points of the chunk collection a query is made against

\* --search arguments
Queries == { << "x" >>, << "y", "x" >>, << "z", "z", "y" >> }

SparsePrefetchLimit == 25
DensePrefetchLimit == 25
FusionLimit == 50
TopResults == 10

\* Fusion::Rrf: a candidate at 1-based rank r of a list scores 1/(RrfK + r)
RrfK == 1

\* The text of the k-th chunk of a collection to be searched: the digits of
\* k in base 3, as words.
RECURSIVE GenText(_)
GenText(k) ==
  IF k = 0 THEN <<>>
  ELSE GenText(k \div 3) \o << (<< "x", "y", "z" >>)[(k % 3) + 1] >>

GenPath(k) == IF k % 2 = 1 THEN <<"data", "a.pdf">> ELSE <<"data", "b.docx">>

\* The point that ingestion stores for that chunk.
GenPoint(k) ==
  ChunkPoint(k, Md5Hex(GenPath(k)), GenText(k), (k - 1) \div 2,
             DenseVec(PassageDoc(GenText(k))), SparseVec(PassageDoc(GenText(k))))

GenChunkColl(n) == [ k \in 1..n |-> GenPoint(k) ]

GenFilesColl(n) ==
  [ id \in { Md5Hex(GenPath(k)) : k \in 1..n } |->
      LET path == id.md5
      IN MetadataPoint(path, file_name_of(path), 1, 1, Md5Hex(<<>>), <<>>) ]

\* A process started with --search against a store that earlier runs filled.
InitSearch ==
  /\ InitSearchVars
  /\ pc = "search"
  /\ budget = 0
  /\ files = <<>>
  /\ idx = 0
  /\ markdown_content = <<>>
  /\ file_id = NoFile
  /\ chunks = <<>>
  /\ dense_embeddings = NoBatch
  /\ sparse_embeddings = NoBatch
  /\ i = 0
  /\ \E n \in 0..MaxPoints :
       /\ chunkColl = GenChunkColl(n)
       /\ filesColl = GenFilesColl(n)
       /\ base = n
  /\ denseDocs = <<>>
  /\ sparseDocs = <<>>
  /\ outcome = "none"
  /\ failed = {}
  /\ lastMeta = << >>
  /\ written = [ path \in Paths |-> 0 ]
  /\ steps = <<>>
  /\ InitStoreReady

\* ------------------------------------------------------------ the backend
\* cosine similarity of the dense field, as the order it induces
DenseSim(q, v) == q[1] * v[1] + q[2] * v[2] + q[3] * v[3]

SparseWeight(sv, index) ==
  IF \E j \in 1..Len(sv.indices) : sv.indices[j] = index
  THEN sv.values[CHOOSE j \in 1..Len(sv.indices) : sv.indices[j] = index]
  ELSE 0

\* dot product of two sparse vectors
SparseSim(q, v) ==
  SparseWeight(q, 1) * SparseWeight(v, 1)
  + SparseWeight(q, 2) * SparseWeight(v, 2)
  + SparseWeight(q, 3) * SparseWeight(v, 3)

\* the point ids of a collection, in id order
IdSeq(coll) == [ k \in 1..Cardinality(DOMAIN coll) |-> k ]

\* nearest search on the sparse field: the points that share an index with
\* the query, best first
SparsePrefetch(coll, qs, limit) ==
  LET sim(u) == SparseSim(qs, coll[u].vectors[SPARSE_NAME])
      hits == SelectSeq(IdSeq(coll), LAMBDA u : sim(u) > 0)
  IN Take(SortSeq(hits, LAMBDA a, b :
                    sim(a) > sim(b) \/ (sim(a) = sim(b) /\ a < b)), limit)

\* nearest search on the dense field, best first
DensePrefetch(coll, qd, limit) ==
  LET sim(u) == DenseSim(qd, coll[u].vectors[DENSE_NAME])
  IN Take(SortSeq(IdSeq(coll), LAMBDA a, b :
                    sim(a) > sim(b) \/ (sim(a) = sim(b) /\ a < b)), limit)

RankIn(list, u) ==
  IF \E r \in 1..Len(list) : list[r] = u
  THEN CHOOSE r \in 1..Len(list) : list[r] = u
  ELSE 0

\* the reciprocal rank score of u as a fraction << numerator, denominator >>
RrfScore(l1, l2, u) ==
  LET r1 == RankIn(l1, u)
      r2 == RankIn(l2, u)
  IN IF r1 > 0 /\ r2 > 0
     THEN << (RrfK + r1) + (RrfK + r2), (RrfK + r1) * (RrfK + r2) >>
     ELSE IF r1 > 0 THEN << 1, RrfK + r1 >>
     ELSE IF r2 > 0 THEN << 1, RrfK + r2 >>
     ELSE << 0, 1 >>

\* RrfFusion that answers the candidates without ordering them by score
RrfFusion_Concatenated(l1, l2) ==
  l1 \o SelectSeq(l2, LAMBDA u : \A r \in 1..Len(l1) : l1[r] # u)

\* Fusion::Rrf over the two prefetch lists: every candidate once, best first
RrfFusion(l1, l2) ==
  LET inL1(u) == RankIn(l1, u) > 0
      cands == l1 \o SelectSeq(l2, LAMBDA u : ~inL1(u))
      sc(u) == RrfScore(l1, l2, u)
  IN SortSeq(cands, LAMBDA a, b :
               \/ sc(a)[1] * sc(b)[2] > sc(b)[1] * sc(a)[2]
               \/ sc(a)[1] * sc(b)[2] = sc(b)[1] * sc(a)[2] /\ a < b)

\* client.query(QueryPointsBuilder ...): the prefetch lists the backend
\* takes and the points of the response, with their payloads
QueryPoints(coll, qs, qd) ==
  LET sp == SparsePrefetch(coll, qs, SparsePrefetchLimit)
      dp == DensePrefetch(coll, qd, DensePrefetchLimit)
      fused == Take(RrfFusion(sp, dp), FusionLimit)
  IN [ sparse |-> sp,
       dense  |-> dp,
       result |-> [ r \in 1..Len(fused) |->
                      [ id |-> fused[r], payload |-> coll[fused[r]].payload ] ] ]

\* filter_map over the response: the chunk_content strings of the payloads
DocumentsOf(points) ==
  [ r \in 1..Len(points) |-> points[r].payload.chunk_content ]

\* ----------------------------------------------------------- the reranker
\* the relevance the cross-encoder gives a document for a query
RerankScore(q, doc) ==
  4 * Cardinality({ j \in 1..Min(Len(q), Len(doc)) : q[j] = doc[j] })
  + Count(doc, q[Len(q)]) - Len(doc)

\* TextRerank::rerank(query, documents, true, None): one result per
\* document, sorted by descending score
rerank(q, docs) ==
  SortSeq([ j \in 1..Len(docs) |->
              [ document |-> docs[j],
                score    |-> RerankScore(q, docs[j]),
                index    |-> j - 1 ] ],
          LAMBDA a, b :
            a.score > b.score \/ (a.score = b.score /\ a.index < b.index))

\* reranked_results.iter().take(10) that keeps every result
FinalResults_All(reranked) == reranked

\* reranked_results.iter().take(10) that takes the last ten
FinalResults_Last(reranked) ==
  IF Len(reranked) <= TopResults THEN reranked
  ELSE SubSeq(reranked, Len(reranked) - TopResults + 1, Len(reranked))

\* reranked_results.iter().take(10)
FinalResults(reranked) == Take(reranked, TopResults)

\* the SearchResult built from a RerankResult
ToSearchResult(r) ==
  [ file_path        |-> <<>>,
    file_name        |-> "",
    chunk_content    |-> r.document,
    chunk_index      |-> 0,
    similarity_score |-> r.score ]

\* --------------------------------------------------------------- actions
\* `?` on an Err inside hybrid_search: perform_search returns the Err of
\* the call that failed, and main prints "Search failed" and exits
SearchFails(what) ==
  /\ results' = NoResult
  /\ search_error' = what
  /\ pc' = "search_failed"

\* main: args.search is Some(query); perform_search calls hybrid_search
SearchStart ==
  /\ pc = "search"
  /\ \E q \in Queries : query' = q
  /\ pc' = "embed_sparse"
  /\ UNCHANGED << sparse_query_embeddings, dense_query_embeddings,
                  prefetch_sparse, prefetch_dense, vector_results, documents,
                  reranked_results, results, search_error, rerank_calls >>
  /\ UNCHANGED << llmVars, ingestVars, storeVars, initVars >>

\* sparse_model.embed(vec![query.to_string()], None)?
EmbedSparseQuery ==
  /\ pc = "embed_sparse"
  /\ \/ /\ SearchFails("sparse_embed")
        /\ UNCHANGED sparse_query_embeddings
     \/ /\ \E len \in BatchLens(1) :
             sparse_query_embeddings' =
               [ok |-> TRUE, v |-> SparseBatch(<< query >>, len)]
        /\ pc' = "embed_dense"
        /\ UNCHANGED << results, search_error >>
  /\ UNCHANGED << query, dense_query_embeddings, prefetch_sparse,
                  prefetch_dense, vector_results, documents, reranked_results,
                  rerank_calls >>
  /\ UNCHANGED << llmVars, ingestVars, storeVars, initVars >>

\* dense_model.embed(vec![query.to_string()], None)?
EmbedDenseQuery ==
  /\ pc = "embed_dense"
  /\ \/ /\ SearchFails("dense_embed")
        /\ UNCHANGED dense_query_embeddings
     \/ /\ \E len \in BatchLens(1) :
             dense_query_embeddings' =
               [ok |-> TRUE, v |-> DenseBatch(<< query >>, len)]
        /\ pc' = "query"
        /\ UNCHANGED << results, search_error >>
  /\ UNCHANGED << query, sparse_query_embeddings, prefetch_sparse,
                  prefetch_dense, vector_results, documents, reranked_results,
                  rerank_calls >>
  /\ UNCHANGED << llmVars, ingestVars, storeVars, initVars >>

\* .first().unwrap() on both batches, the query to the backend and the
\* collection of the documents
QueryBackend ==
  /\ pc = "query"
  /\ IF sparse_query_embeddings.v = <<>> \/ dense_query_embeddings.v = <<>>
     THEN \* unwrap on None
          /\ pc' = "panicked"
          /\ UNCHANGED << prefetch_sparse, prefetch_dense, vector_results,
                          documents, results, search_error >>
     ELSE \/ /\ SearchFails("query")
             /\ UNCHANGED << prefetch_sparse, prefetch_dense, vector_results,
                             documents >>
          \/ LET r == QueryPoints(chunkColl, sparse_query_embeddings.v[1],
                                  dense_query_embeddings.v[1])
             IN /\ prefetch_sparse' = r.sparse
                /\ prefetch_dense' = r.dense
                /\ vector_results' = r.result
                /\ documents' = DocumentsOf(r.result)
                /\ pc' = "rerank"
                /\ UNCHANGED << results, search_error >>
  /\ UNCHANGED << query, sparse_query_embeddings, dense_query_embeddings,
                  reranked_results, rerank_calls >>
  /\ UNCHANGED << llmVars, ingestVars, storeVars, initVars >>

\* Rerank that answers a failure of the reranker with the fused order
Rerank_FusedFallback ==
  /\ pc = "rerank"
  /\ rerank_calls' = rerank_calls + 1
  /\ \/ /\ reranked_results' =
             [ j \in 1..Len(documents) |->
                 [document |-> documents[j], score |-> 0, index |-> j - 1] ]
        /\ search_error' = "rerank"
        /\ pc' = "collect"
        /\ UNCHANGED results
     \/ /\ reranked_results' = rerank(query, documents)
        /\ pc' = "collect"
        /\ UNCHANGED << results, search_error >>
  /\ UNCHANGED << query, sparse_query_embeddings, dense_query_embeddings,
                  prefetch_sparse, prefetch_dense, vector_results, documents >>
  /\ UNCHANGED << llmVars, ingestVars, storeVars, initVars >>

\* reranker.rerank(query, documents, true, None)?  The call is made with
\* whatever documents were collected, an empty list included.
Rerank ==
  /\ pc = "rerank"
  /\ rerank_calls' = rerank_calls + 1
  /\ \/ /\ SearchFails("rerank")
        /\ UNCHANGED reranked_results
     \/ /\ reranked_results' = rerank(query, documents)
        /\ pc' = "collect"
        /\ UNCHANGED << results, search_error >>
  /\ UNCHANGED << query, sparse_query_embeddings, dense_query_embeddings,
                  prefetch_sparse, prefetch_dense, vector_results, documents >>
  /\ UNCHANGED << llmVars, ingestVars, storeVars, initVars >>

\* take(10), the SearchResults and Ok(..)
Collect ==
  /\ pc = "collect"
  /\ LET final_results == FinalResults(reranked_results)
     IN results' = [ ok |-> TRUE,
                     v  |-> [ j \in 1..Len(final_results) |->
                                ToSearchResult(final_results[j]) ] ]
  /\ pc' = "returned"
  /\ UNCHANGED << query, sparse_query_embeddings, dense_query_embeddings,
                  prefetch_sparse, prefetch_dense, vector_results, documents,
                  reranked_results, search_error, rerank_calls >>
  /\ UNCHANGED << llmVars, ingestVars, storeVars, initVars >>

\* ------------------------------------------------- the answer synthesizer
MaxChoices == 2       \* completions of one chat response

NoContent == [some |-> FALSE, v |-> <<>>]
Some(text) == [some |-> TRUE, v |-> text]

\* message.content of a completion: absent, the empty string, or a text
Contents == { NoContent, Some(<<>>), Some(<< "x" >>) }

\* Choice { message, finish_reason }
Choices == [ content : Contents, finish_reason : { "stop", "length" } ]

\* ChatCompletionResponse.choices
ChoiceLists == UNION { [ 1..n -> Choices ] : n \in 0..MaxChoices }

Ok(text) == [ok |-> TRUE, v |-> text, err |-> "none"]
Err(what) == [ok |-> FALSE, v |-> <<>>, err |-> what]

\* the context generate_response formats from the search results:
\* "[Source i] File: file_name (Score: ..)\nContent: chunk_content\n"
ContextOf(search_results) ==
  [ j \in 1..Len(search_results) |->
      [ source  |-> j,
        file    |-> search_results[j].file_name,
        score   |-> search_results[j].similarity_score,
        content |-> search_results[j].chunk_content ] ]

\* the answer generate_response extracts from the choices of a response
ExtractAnswer(choices) ==
  IF choices # <<>>
  THEN IF choices[1].content.some
       THEN Ok(choices[1].content.v)
       ELSE Err("truncated")
  ELSE Err("no_choices")

\* perform_search after hybrid_search returned Ok(results)
CheckResults ==
  /\ pc = "returned"
  /\ pc' = IF results.v = <<>> THEN "no_results" ELSE "respond"
  /\ UNCHANGED << llmVars, searchCallVars, ingestVars, storeVars, initVars >>

\* OpenAiClient::new(env::var(..).unwrap(), ..) and generate_response(..)?
GenerateResponse ==
  /\ pc = "respond"
  /\ \/ \* one of the environment variables is not set
        /\ pc' = "panicked"
        /\ UNCHANGED llmVars
     \/ /\ llm_calls' = llm_calls + 1
        /\ llm_context' = ContextOf(results.v)
        /\ \/ \E what \in { "request_failed", "api_request_failed",
                            "decode_failed" } :
                /\ response' = Err(what)
                /\ UNCHANGED chat_response
           \/ \E choices \in ChoiceLists :
                /\ chat_response' = choices
                /\ response' = ExtractAnswer(choices)
        /\ pc' = IF response'.ok THEN "answered" ELSE "search_failed"
  /\ UNCHANGED << searchCallVars, ingestVars, storeVars, initVars >>

NextSearch ==
  \/ SearchStart
  \/ EmbedSparseQuery
  \/ EmbedDenseQuery
  \/ QueryBackend
  \/ Rerank
  \/ Collect
  \/ CheckResults
  \/ GenerateResponse

SpecSearch == InitSearch /\ [][NextSearch]_vars

\* ======================================================= initialization
MaxInits == 2         \* times the store is initialized against one backend

\* CreateCollection that replaces a collection that exists by an empty one
CreateCollection_Recreating(coll, ex, ok) ==
  IF ex \/ ok THEN [ exists |-> TRUE, coll |-> << >>, result |-> "created" ]
  ELSE [ exists |-> FALSE, coll |-> coll, result |-> "refused" ]

\* create_collection of the backend: a collection that exists is left as it
\* is and the request is answered with an error; one that does not exist is
\* created empty, unless the backend refuses or cannot be reached
CreateCollection(coll, ex, ok) ==
  IF ex THEN [ exists |-> TRUE, coll |-> coll, result |-> "already_exists" ]
  ELSE IF ok THEN [ exists |-> TRUE, coll |-> << >>, result |-> "created" ]
  ELSE [ exists |-> FALSE, coll |-> coll, result |-> "refused" ]

\* A process started against a backend in which neither, one or both of the
\* collections exist, with the records earlier runs left in them.
InitStore ==
  /\ InitSearchVars
  /\ pc = "init_files"
  /\ budget = 0
  /\ files = <<>>
  /\ idx = 0
  /\ markdown_content = <<>>
  /\ file_id = NoFile
  /\ chunks = <<>>
  /\ dense_embeddings = NoBatch
  /\ sparse_embeddings = NoBatch
  /\ i = 0
  /\ \E n \in 0..MaxPoints, ex \in [ files : BOOLEAN, chunks : BOOLEAN ] :
       /\ exists = ex
       /\ chunkColl = IF ex.chunks THEN GenChunkColl(n) ELSE << >>
       /\ filesColl = IF ex.files THEN GenFilesColl(n) ELSE << >>
       /\ base = n
  /\ denseDocs = <<>>
  /\ sparseDocs = <<>>
  /\ outcome = "none"
  /\ failed = {}
  /\ lastMeta = << >>
  /\ written = [ path \in Paths |-> 0 ]
  /\ steps = <<>>
  /\ init_log = <<>>
  /\ init_result = "none"
  /\ inits = 1

\* init_collections: create_collection of the files collection, its result
\* printed whether Ok or Err
InitFilesCollection ==
  /\ pc = "init_files"
  /\ \E ok \in BOOLEAN :
       LET r == CreateCollection(filesColl, exists.files, ok)
       IN /\ exists' = [ exists EXCEPT !.files = r.exists ]
          /\ filesColl' = r.coll
          /\ init_log' = Append(init_log, r.result)
  /\ pc' = "init_chunks"
  /\ UNCHANGED << chunkColl, init_result, inits >>
  /\ UNCHANGED << searchVars, ingestVars >>

\* init_collections: create_collection of the file_embeddings collection,
\* its result printed whether Ok or Err, and Ok(())
InitChunkCollection ==
  /\ pc = "init_chunks"
  /\ \E ok \in BOOLEAN :
       LET r == CreateCollection(chunkColl, exists.chunks, ok)
       IN /\ exists' = [ exists EXCEPT !.chunks = r.exists ]
          /\ chunkColl' = r.coll
          /\ init_log' = Append(init_log, r.result)
  /\ init_result' = "ok"
  /\ pc' = "connected"
  /\ UNCHANGED << filesColl, inits >>
  /\ UNCHANGED << searchVars, ingestVars >>

\* the program is started again: QdrantVectorStore::new calls init_collections
StartAgain ==
  /\ pc = "connected"
  /\ inits < MaxInits
  /\ inits' = inits + 1
  /\ init_log' = <<>>
  /\ init_result' = "none"
  /\ pc' = "init_files"
  /\ UNCHANGED << exists, storeVars, searchVars, ingestVars >>

NextInit ==
  \/ InitFilesCollection
  \/ InitChunkCollection
  \/ StartAgain

SpecInit == InitStore /\ [][NextInit]_vars

\* ================================================================ claims
\* the chunk points written while the current entry is ingested
NewPoints == { chunkColl[u] : u \in { w \in DOMAIN chunkColl : w > base } }

PositionsOf(points) == { p.payload.chunk_index : p \in points }

PointsOfFile(fid) ==
  { chunkColl[u] : u \in { w \in DOMAIN chunkColl :
                             chunkColl[w].payload.file_id = fid } }

\* C1: a failure while one file is ingested never aborts the run: no run
\* stops while files of its list have not been attempted.
C1_FailureNeverAbortsRun ==
  pc \in {"done", "panicked"} => (files = <<>> \/ idx > Len(files))

\* C2: when the dense or the sparse embedding call fails, the caller goes on
\* to the next file (or to the completion step), and the attempt has written
\* no chunk of the failed file.
C2_EmbeddingFailureSkipsFile ==
  outcome \in {"dense_failed", "sparse_failed"} =>
    /\ pc \in {"convert", "store_meta", "chunk", "dense", "sparse", "check",
               "store", "complete", "done"}
    /\ NewPoints = {}

\* C3: batches of different lengths: the store loop is never entered for the
\* file, the step that detects the mismatch leaves the chunk collection as
\* it was, with no chunk of the file written, and goes on to the next file.
C3_LengthMismatchSkipsFile ==
  /\ [](pc = "store" =>
          Len(dense_embeddings.v) = Len(sparse_embeddings.v))
  /\ [][ (pc = "check" /\
          Len(dense_embeddings.v) # Len(sparse_embeddings.v)) =>
           /\ NewPoints = {}
           /\ i = 0
           /\ chunkColl' = chunkColl
           /\ idx' = idx + 1
           /\ pc' = IF idx < Len(files) THEN "convert" ELSE "complete" ]_vars

\* a later file is being ingested right after a file whose batches mismatched
C3_Witness ==
  /\ outcome = "length_mismatch"
  /\ idx = 2
  /\ pc = "store"
  /\ NewPoints # {}

\* C4: a failed chunk write changes nothing but the collection: every write
\* issued, failed or not, is followed by the next position of the same file,
\* the chunks written for the file are those of the positions passed whose
\* write did not fail, in position order, and the exhausted loop goes on to
\* the next file.
C4_FailedWriteIsSkipped ==
  /\ [](pc = "store" =>
          /\ PositionsOf(NewPoints) = (0..(i - 1)) \ failed
          /\ Cardinality(NewPoints) = i - Cardinality(failed)
          /\ \A p, q \in NewPoints :
               p.id < q.id => p.payload.chunk_index < q.payload.chunk_index)
  /\ [][ (pc = "store" /\ i < Len(dense_embeddings.v) /\ i < Len(chunks)) =>
           /\ pc' = "store"
           /\ i' = i + 1
           /\ filesColl' = filesColl
           /\ \/ chunkColl' = chunkColl /\ failed' = failed \cup {i}
              \/ /\ failed' = failed
                 /\ DOMAIN chunkColl' =
                      DOMAIN chunkColl \cup {NewUuid(chunkColl)}
                 /\ \A u \in DOMAIN chunkColl : chunkColl'[u] = chunkColl[u] ]_vars
  /\ [][ (pc = "store" /\ i = Len(dense_embeddings.v)) =>
           pc' = IF idx < Len(files) THEN "convert" ELSE "complete" ]_vars

\* the first write of a file failed, its later chunks were written, and a
\* chunk of the following file has been written too
C4_Witness ==
  /\ pc = "store"
  /\ idx = 2
  /\ NewPoints # {}
  /\ LET fid == Md5Hex(files[1])
     IN /\ fid # file_id
        /\ PositionsOf(PointsOfFile(fid)) = {1, 2}

\* C5: every metadata record is keyed by the md5 of its own path, so a path
\* has at most one record, and the record of a path holds the values of the
\* last successful write for that path.
C5_OneRecordPerPath ==
  /\ \A id \in DOMAIN filesColl :
       /\ filesColl[id].id = id
       /\ id = Md5Hex(filesColl[id].payload.file_path)
  /\ \A path \in Paths :
       Cardinality({ id \in DOMAIN filesColl :
                       filesColl[id].payload.file_path = path }) <= 1
  /\ file_id # NoFile => file_id = Md5Hex(files[idx])
  /\ \A path \in DOMAIN lastMeta :
       /\ Md5Hex(path) \in DOMAIN filesColl
       /\ LET pl == filesColl[Md5Hex(path)].payload
              m  == lastMeta[path]
          IN /\ pl.file_path = path
             /\ pl.file_name = file_name_of(path)
             /\ pl.file_size = m.file_size
             /\ pl.modified_time = m.modified_time
             /\ pl.markdown_content = m.markdown_content
             /\ pl.content_hash = Md5Hex(m.markdown_content)

\* a path is ingested again with another content (a chunk of its earlier
\* content is in the chunk collection) and another size and timestamp
C5_Witness ==
  /\ pc = "chunk"
  /\ Cardinality(DOMAIN filesColl) = 1
  /\ filesColl[file_id].payload.file_size = 2
  /\ filesColl[file_id].payload.markdown_content = markdown_content
  /\ \E p \in PointsOfFile(file_id) :
       /\ p.payload.chunk_content = << "z" >>
       /\ \A j \in 1..Len(markdown_content) : markdown_content[j] # "z"

\* the loop of the entry is exhausted, both models returned one embedding
\* per chunk and no write failed
IngestedWhole ==
  /\ pc = "store"
  /\ i = Len(dense_embeddings.v)
  /\ Len(dense_embeddings.v) = Len(chunks)
  /\ failed = {}

RecordsOfPath(path) ==
  { id \in DOMAIN filesColl : filesColl[id].payload.file_path = path }

WholeFileStored ==
  IngestedWhole =>
    /\ Cardinality(NewPoints) = Len(chunks)
    /\ PositionsOf(NewPoints) = 0..(Len(chunks) - 1)
    /\ \A p \in NewPoints : p.payload.file_id = Md5Hex(files[idx])
    /\ RecordsOfPath(files[idx]) = { Md5Hex(files[idx]) }

\* C6 as stated: a file of N chunks ingested without failure has added N
\* chunk points, one per position, with the file's identifier, and its
\* metadata write has made the metadata collection one point larger.
C6_IngestGainsOneRecord ==
  /\ []WholeFileStored
  /\ [][ (pc = "store_meta" /\ pc' = "chunk") =>
           Cardinality(DOMAIN filesColl') =
             Cardinality(DOMAIN filesColl) + 1 ]_vars

\* C6 as amended: the same for the chunk points; the metadata write writes
\* the one point keyed by the md5 of the path and leaves the other records
\* alone, so the metadata collection is one point larger when the path had
\* no record and as large as before when it had one.
C6_IngestWritesOneRecord ==
  /\ []WholeFileStored
  /\ [][ (pc = "store_meta" /\ pc' = "chunk") =>
           LET id == Md5Hex(files[idx])
           IN /\ DOMAIN filesColl' = DOMAIN filesColl \cup {id}
              /\ \A o \in DOMAIN filesColl \ {id} :
                   filesColl'[o] = filesColl[o]
              /\ Cardinality(DOMAIN filesColl') =
                   Cardinality(DOMAIN filesColl)
                   + (IF id \in DOMAIN filesColl THEN 0 ELSE 1) ]_vars

\* a file of three chunks has been ingested whole, over the record that an
\* earlier ingestion of the same path left
C6_Witness ==
  /\ IngestedWhole
  /\ Len(chunks) = 3
  /\ Cardinality(NewPoints) = 3
  /\ base > 0
  /\ Cardinality(DOMAIN filesColl) = 1

\* C7: both batches are computed from the passage documents of the same
\* chunk sequence, every chunk point written for the entry holds, for its
\* position, the chunk text and the dense and sparse embeddings at that index
\* of the batches, and every chunk point of the collection holds the dense
\* and the sparse embedding of the passage document of its own text.
C7_ChunkRecordsPaired ==
  /\ pc \in {"check", "store"} =>
       /\ denseDocs = sparseDocs
       /\ denseDocs = [ j \in 1..Len(chunks) |-> <<"passage: ">> \o chunks[j] ]
  /\ pc = "store" =>
       \A p \in NewPoints :
         LET k == p.payload.chunk_index
         IN /\ k \in 0..(i - 1)
            /\ p.payload.chunk_content = chunks[k + 1]
            /\ p.vectors[DENSE_NAME] = dense_embeddings.v[k + 1]
            /\ p.vectors[SPARSE_NAME].indices = sparse_embeddings.v[k + 1].indices
            /\ p.vectors[SPARSE_NAME].values = sparse_embeddings.v[k + 1].values
  /\ \A u \in DOMAIN chunkColl :
       LET p == chunkColl[u]
           doc == <<"passage: ">> \o p.payload.chunk_content
       IN /\ p.vectors[DENSE_NAME] = DenseVec(doc)
          /\ p.vectors[SPARSE_NAME] = SparseVec(doc)

\* three chunks with three different texts and embeddings have been written
C7_Witness ==
  /\ pc = "store"
  /\ i = 3
  /\ Cardinality({ p.payload.chunk_content : p \in NewPoints }) = 3
  /\ Cardinality({ p.vectors[SPARSE_NAME] : p \in NewPoints }) = 3

\* C8: every point of the chunk collection has a dense and a sparse vector.
C8_BothVectorsStored ==
  \A u \in DOMAIN chunkColl :
    /\ DOMAIN chunkColl[u].vectors = {DENSE_NAME, SPARSE_NAME}
    /\ Len(chunkColl[u].vectors[DENSE_NAME]) = 3
    /\ DOMAIN chunkColl[u].vectors[SPARSE_NAME] = {"indices", "values"}

\* chunk points of two files are in the collection, one file with a failed
\* write
C8_Witness ==
  /\ Cardinality({ chunkColl[u].payload.file_id : u \in DOMAIN chunkColl }) = 2
  /\ failed # {}
  /\ NewPoints # {}

\* C9: the backend takes at most 25 candidates from each prefetch, at most
\* 50 fused candidates reach the reranker, and hybrid_search returns at most
\* 10 SearchResults.
C9_SearchBounds ==
  /\ Len(prefetch_sparse) <= 25
  /\ Len(prefetch_dense) <= 25
  /\ Len(vector_results) <= 50
  /\ Len(documents) <= 50
  /\ Len(reranked_results) <= 50
  /\ results.ok => Len(results.v) <= 10

\* a query against more than 50 points: both prefetches are full, more than
\* 25 candidates are fused and reranked, and ten results are returned
C9_Witness ==
  /\ pc = "returned"
  /\ Cardinality(DOMAIN chunkColl) > 50
  /\ Len(prefetch_sparse) = 25
  /\ Len(prefetch_dense) = 25
  /\ Len(documents) > 25
  /\ Len(reranked_results) = Len(documents)
  /\ Len(results.v) = 10

\* the rerank scores of the documents handed to the reranker, highest first
CandidateScores ==
  SortSeq([ c \in 1..Len(documents) |-> RerankScore(query, documents[c]) ],
          LAMBDA a, b : a > b)

\* C10: the returned list is in non-increasing order of rerank score, every
\* result is a fused candidate with its rerank score, and the scores
\* returned are the highest of the candidates' scores: nothing omitted scores
\* higher than something returned.
C10_ResultsAreTopReranked ==
  pc = "returned" =>
    LET res == results.v
    IN /\ Len(res) <= Len(documents)
       /\ \A j \in 1..(Len(res) - 1) :
            res[j].similarity_score >= res[j + 1].similarity_score
       /\ \A j \in 1..Len(res) :
            /\ \E c \in 1..Len(documents) :
                 /\ documents[c] = res[j].chunk_content
                 /\ RerankScore(query, documents[c]) = res[j].similarity_score
            /\ res[j].similarity_score = CandidateScores[j]

\* ten of more than ten candidates are returned, with different scores, some
\* omitted candidate scores lower, and the best result is not the first of
\* the fused order
C10_Witness ==
  /\ pc = "returned"
  /\ Len(documents) > 10
  /\ Len(results.v) = 10
  /\ results.v[1].similarity_score > results.v[10].similarity_score
  /\ CandidateScores[Len(documents)] < results.v[10].similarity_score
  /\ results.v[1].chunk_content # documents[1]

\* C11: when the call of the reranker fails, hybrid_search returns the error
\* and no result list: the fused candidates are not returned in its place,
\* and the language model is never called for that query.
C11_RerankFailureEndsSearch ==
  search_error = "rerank" =>
    /\ pc = "search_failed"
    /\ ~results.ok
    /\ results.v = <<>>
    /\ llm_calls = 0

\* the reranker failed on a query that had fused candidates
C11_Witness ==
  /\ search_error = "rerank"
  /\ documents # <<>>
  /\ rerank_calls = 1

\* the backend has answered the query of hybrid_search
QueryAnswered ==
  /\ pc \notin { "search", "embed_sparse", "embed_dense", "query", "panicked" }
  /\ search_error \notin { "sparse_embed", "dense_embed", "query" }

\* C12: a query against an empty chunk collection yields empty prefetch
\* lists and an empty fused list, the reranker is not called, and
\* hybrid_search returns an empty result list without an error.
C12_EmptyCollectionSkipsReranker ==
  (DOMAIN chunkColl = {} /\ QueryAnswered) =>
    /\ prefetch_sparse = <<>>
    /\ prefetch_dense = <<>>
    /\ vector_results = <<>>
    /\ rerank_calls = 0
    /\ search_error = "none"
    /\ pc \in { "returned", "no_results" } => (results.ok /\ results.v = <<>>)

\* the ids of the fused response, in its order
FusedIds == [ r \in 1..Len(vector_results) |-> vector_results[r].id ]

SeqRange(list) == { list[r] : r \in 1..Len(list) }

\* 1/(k + r) for the 1-based rank r of u in list as << numerator,
\* denominator >>, and 0/1 when u is not in the list
RankTerm(list, u) ==
  IF u \in SeqRange(list)
  THEN << 1, RrfK + (CHOOSE r \in 1..Len(list) : list[r] = u) >>
  ELSE << 0, 1 >>

\* the sum of the terms of u in the two prefetch lists
FusedScore(u) ==
  LET s == RankTerm(prefetch_sparse, u)
      d == RankTerm(prefetch_dense, u)
  IN << s[1] * d[2] + d[1] * s[2], s[2] * d[2] >>

\* C13: the ranking handed to the reranker is the reciprocal rank fusion of
\* the two prefetch lists: every candidate of either list appears once, a
\* candidate scores 1/(k+r1) + 1/(k+r2) over the lists it is in (one term
\* when it is in only one), and the candidates are in non-increasing order
\* of that score before the truncation.
C13_FusedOrderIsRrf ==
  pc \in { "rerank", "collect", "returned" } =>
    /\ Len(FusedIds) = Min(FusionLimit,
           Cardinality(SeqRange(prefetch_sparse) \cup SeqRange(prefetch_dense)))
    /\ SeqRange(FusedIds) \subseteq
         SeqRange(prefetch_sparse) \cup SeqRange(prefetch_dense)
    /\ \A r, t \in 1..Len(FusedIds) : r # t => FusedIds[r] # FusedIds[t]
    /\ \A r \in 1..(Len(FusedIds) - 1) :
         LET a == FusedScore(FusedIds[r])
             b == FusedScore(FusedIds[r + 1])
         IN a[1] * b[2] >= b[1] * a[2]
    /\ documents = [ r \in 1..Len(FusedIds) |->
                       chunkColl[FusedIds[r]].payload.chunk_content ]

\* a fused list with a candidate of both lists and one of the dense list
\* only, whose order is that of neither prefetch list
C13_Witness ==
  /\ pc = "rerank"
  /\ \E u \in SeqRange(prefetch_sparse) : u \in SeqRange(prefetch_dense)
  /\ \E u \in SeqRange(prefetch_dense) : u \notin SeqRange(prefetch_sparse)
  /\ FusedIds # prefetch_dense
  /\ Take(FusedIds, Len(prefetch_sparse)) # prefetch_sparse

\* the search result r describes the chunk point u and its file record
DescribesChunk(r, u) ==
  LET chunk == chunkColl[u]
      fid == chunk.payload.file_id
  IN /\ fid \in DOMAIN filesColl
     /\ r.file_path = filesColl[fid].payload.file_path
     /\ r.file_name = filesColl[fid].payload.file_name
     /\ r.chunk_index = chunk.payload.chunk_index
     /\ r.chunk_content = chunk.payload.chunk_content

\* C14: every search result carries the path and the name of the file
\* record that owns its chunk and the chunk's zero-based position, with the
\* chunk's text and its relevance score; the synthesizer renders the name,
\* the score and the text of each result as its source.
C14_ResultsCarryProvenance ==
  results.ok =>
    /\ \A j \in 1..Len(results.v) :
         /\ \E u \in SeqRange(FusedIds) : DescribesChunk(results.v[j], u)
         /\ results.v[j].similarity_score = reranked_results[j].score
    /\ llm_calls > 0 =>
         llm_context = [ j \in 1..Len(results.v) |->
                           [ source  |-> j,
                             file    |-> results.v[j].file_name,
                             score   |-> results.v[j].similarity_score,
                             content |-> results.v[j].chunk_content ] ]

\* C15: when the top-ranked completion of the response reports the
\* truncation finish condition, the synthesizer returns the truncation
\* error, whether or not the completion carries content: the partial
\* content is never returned as the answer.
C15_TruncationIsAnError ==
  (llm_calls > 0 /\ chat_response # <<>>
     /\ chat_response[1].finish_reason = "length") =>
    /\ ~response.ok
    /\ response.err = "truncated"
    /\ pc # "answered"

\* the top-ranked completion of the response has content that is not empty
HasAnswer ==
  /\ chat_response # <<>>
  /\ chat_response[1].content.some
  /\ chat_response[1].content.v # <<>>

\* C16: the synthesizer returns success only when the response has a
\* top-ranked completion whose content is not empty; a response with no
\* completions, with absent content or with the empty string as content is
\* an error, never an empty answer.
C16_AnswerIsNeverEmpty ==
  llm_calls > 0 =>
    /\ response.ok <=> HasAnswer
    /\ response.ok => response.v # <<>>

\* a step of init_collections keeps the collections and their records, and
\* its last step leaves both collections existing
InitStepEnsuresStore ==
  pc \in { "init_files", "init_chunks" } =>
    /\ filesColl' = filesColl
    /\ chunkColl' = chunkColl
    /\ (exists.files /\ exists.chunks) => exists' = exists
    /\ pc' = "connected" =>
         /\ init_result' = "ok"
         /\ exists'.files
         /\ exists'.chunks

InitStepKeepsStore ==
  pc \in { "init_files", "init_chunks" } =>
    /\ filesColl' = filesColl
    /\ chunkColl' = chunkColl
    /\ exists.files => exists'.files
    /\ exists.chunks => exists'.chunks
    /\ (exists.files /\ exists.chunks) => exists' = exists
    /\ pc' = "connected" =>
         /\ init_result' = "ok"
         /\ (\A k \in 1..Len(init_log') : init_log'[k] # "refused") =>
              (exists'.files /\ exists'.chunks)

ChunkPointsKept ==
  \A u \in DOMAIN chunkColl :
    /\ u \in DOMAIN chunkColl'
    /\ chunkColl'[u] = chunkColl[u]

\* every chunk write the backend accepted for a path has left a point of its
\* own carrying the file's identifier, and the path has one record
AcceptedWritesAllStored ==
  \A path \in Paths :
    /\ Cardinality(PointsOfFile(Md5Hex(path))) = written[path]
    /\ written[path] > 0 => Cardinality(RecordsOfPath(path)) = 1

\* a step of the program removes and overwrites no chunk point
ChunkStepOnlyAdds ==
  /\ ChunkPointsKept
  /\ Cardinality(DOMAIN chunkColl') >= Cardinality(DOMAIN chunkColl)
  /\ AcceptedWritesAllStored'

\* C18: chunk writes never overwrite or remove a chunk point: the chunk
\* collection only grows, and a file of N chunks ingested k times with every
\* write succeeding (k * N accepted writes) has k * N chunk points carrying
\* its identifier, while the metadata collection still holds one record for
\* it.
C18_ChunkWritesOnlyAdd == [][ChunkStepOnlyAdds]_vars

\* a file of three chunks, ingested whole before, has been ingested whole
\* again: six chunk points carry its identifier, two for each position, and
\* one record is kept
C18_Witness ==
  /\ IngestedWhole
  /\ Len(chunks) = 3
  /\ written[files[idx]] = 6
  /\ Cardinality({ p \in PointsOfFile(file_id) : p.id <= base }) = 3
  /\ Cardinality(PointsOfFile(file_id)) = 6
  /\ Cardinality(RecordsOfPath(files[idx])) = 1
  /\ \A n \in 0..2 :
       Cardinality({ p \in PointsOfFile(file_id) :
                       p.payload.chunk_index = n }) = 2

\* the j-th call made for a file: conversion, the metadata write, chunking,
\* the dense batch, the sparse batch, then the chunk writes by position
ExpectedStep(j, path) ==
  [ op   |-> IF j = 1 THEN "convert_file_to_markdown"
             ELSE IF j = 2 THEN "store_file_metadata"
             ELSE IF j = 3 THEN "chunk_markdown_content"
             ELSE IF j = 4 THEN "generate_dense_embeddings"
             ELSE IF j = 5 THEN "generate_sparse_embeddings"
             ELSE "store_embeddings",
    file |-> path,
    pos  |-> IF j <= 5 THEN -1 ELSE j - 6 ]

\* the calls made for the entry are a prefix of that order, each made once
StepsInOrder ==
  \A j \in 1..Len(steps) : steps[j] = ExpectedStep(j, files[idx])

\* a step of the run makes the next call of the entry or ends the entry, and
\* the entries are taken in the order of the list, one after the other
SequentialStep ==
  /\ StepsInOrder'
  /\ \/ steps' = steps
     \/ steps' = <<>>
     \/ /\ Len(steps') = Len(steps) + 1
        /\ SubSeq(steps', 1, Len(steps)) = steps
  /\ pc \notin { "start", "done", "panicked" } =>
       /\ files' = files
       /\ idx' \in { idx, idx + 1 }
       /\ idx' = idx + 1 => steps' = <<>>

\* C19: ingestion is strictly sequential: for each file, in discovery order,
\* conversion, the metadata write, chunking, one dense batch call, one
\* sparse batch call and then the chunk writes in increasing position, each
\* completed before the next; no call for a later file is made before the
\* last call for an earlier one, and no call is made twice.
C19_IngestionIsSequential == [][SequentialStep]_vars

\* the second file of a run has had all its calls made, three chunk writes
\* among them, one of which the backend did not accept
C19_Witness ==
  /\ pc = "store"
  /\ idx = 2
  /\ Len(steps) = 8
  /\ steps[8] = [ op |-> "store_embeddings", file |-> files[2], pos |-> 2 ]
  /\ failed # {}

\* C20: every chunk point's file id is the key of a record of the metadata
\* collection: the metadata write precedes the chunk writes of a file and
\* must succeed for them to be made, and no record is deleted.  The converse
\* does not hold: a file whose embedding batches differ in length keeps its
\* record with no chunk.
C20_ChunksReferToRecords ==
  \A u \in DOMAIN chunkColl :
    /\ chunkColl[u].payload.file_id \in DOMAIN filesColl
    /\ filesColl[chunkColl[u].payload.file_id].id = chunkColl[u].payload.file_id

\* chunk points are stored that refer to the record of one file, and the
\* record of a file skipped for a length mismatch has no chunk point
C20_Witness ==
  /\ outcome = "length_mismatch"
  /\ DOMAIN chunkColl # {}
  /\ \E fid \in DOMAIN filesColl : PointsOfFile(fid) = {}
  /\ \E fid \in DOMAIN filesColl : PointsOfFile(fid) # {}

====
